---- MODULE Spec2Model ----
(***************************************************************************)
(* Episode ingestion of the podcast site generator (src/src/main.rs):      *)
(* load_episode splits one document into front matter and body,            *)
(* load_episodes walks the series directories and guards against           *)
(* duplicate media files.                                                  *)
(*                                                                         *)
(* A string is a sequence of characters; every character has the width of  *)
(* its UTF-8 encoding, and offsets are byte offsets as in Rust.            *)
(* The entries of the root directory are directories that can be read, and *)
(* a file that can be read holds UTF-8 text.                               *)
(***************************************************************************)
EXTENDS Integers, Sequences, FiniteSets

VARIABLES tree, episodes, si, di, pc, result, read, content, outcome

vars == <<tree, episodes, si, di, pc, result, read, content, outcome>>

loaderVars == <<tree, episodes, si, di, pc, result, read>>

episodeVars == <<content, outcome>>

\* ------------------------------------------------------------------ bounds

\* Most pieces a document text of the load_episode specification is made of.
MaxPieces == 4

\* Most series directories of a tree.
MaxSeries == 2

\* Most documents of a tree, over all its series.
MaxDocs == 3

\* -------------------------------------------------------------- characters

HYPHEN == "-"

NL == "\n"

\* U+2043 HYPHEN BULLET
ABNORMAL_DASH == "U+2043"

\* U+201C, U+2018, U+2019, U+201D
SMART_QUOTES == <<"U+201C", "U+2018", "U+2019", "U+201D">>

\* A two-byte character no check of the loader looks for.
E_ACUTE == "U+00E9"

\* The letters f and g stand for front matter lines that give every required
\* key, with `file: f` and `file: g`.
FileChars == {"f", "g"}

Range(s) == {s[i] : i \in 1..Len(s)}

\* Bytes of the UTF-8 encoding of a character.
Width(c) ==
    IF c \in {ABNORMAL_DASH} \cup Range(SMART_QUOTES) THEN 3
    ELSE IF c = E_ACUTE THEN 2
    ELSE 1

RECURSIVE ByteLen(_)
ByteLen(s) == IF s = <<>> THEN 0 ELSE Width(Head(s)) + ByteLen(Tail(s))

\* Byte offset at which character k of s starts (k = Len(s) + 1: the end).
ByteOffset(s, k) == ByteLen(SubSeq(s, 1, k - 1))

IsCharBoundary(s, b) == \E k \in 1..(Len(s) + 1) : ByteOffset(s, k) = b

\* The character index that starts at byte offset b, a character boundary.
CharAt(s, b) == CHOOSE k \in 1..(Len(s) + 1) : ByteOffset(s, k) = b

\* str::contains(char)
Contains(s, c) == \E i \in 1..Len(s) : s[i] = c

\* starts_with that leaves out the last character of the prefix: the
\* opening delimiter without its newline.
StartsWithoutLast(s, p) ==
    Len(s) >= Len(p) - 1 /\ SubSeq(s, 1, Len(p) - 1) = SubSeq(p, 1, Len(p) - 1)

\* str::starts_with(&str)
StartsWith(s, p) == Len(s) >= Len(p) /\ SubSeq(s, 1, Len(p)) = p

MatchAt(s, p, i) == i + Len(p) - 1 <= Len(s) /\ SubSeq(s, i, i + Len(p) - 1) = p

NotFound == -1

\* str::find(&str): the byte offset of the first match, or NotFound.
Find(s, p) ==
    LET hits == {i \in 1..(Len(s) + 1) : MatchAt(s, p, i)}
    IN  IF hits = {} THEN NotFound
        ELSE ByteOffset(s, CHOOSE i \in hits : \A j \in hits : i <= j)

\* &s[from..]: the slice, or a panic when from is past the end or inside a
\* character.
SliceFrom(s, from) ==
    IF from > ByteLen(s) \/ ~IsCharBoundary(s, from)
    THEN [panic |-> TRUE, str |-> <<>>]
    ELSE [panic |-> FALSE, str |-> SubSeq(s, CharAt(s, from), Len(s))]

\* &s[from..to]
Slice(s, from, to) ==
    IF from > to \/ to > ByteLen(s) \/ ~IsCharBoundary(s, from) \/ ~IsCharBoundary(s, to)
    THEN [panic |-> TRUE, str |-> <<>>]
    ELSE [panic |-> FALSE, str |-> SubSeq(s, CharAt(s, from), CharAt(s, to) - 1)]

OPEN == <<HYPHEN, HYPHEN, HYPHEN, NL>>

MARK == <<HYPHEN, HYPHEN, HYPHEN>>

\* ------------------------------------------------------------ load_episode

NoPath == <<>>

\* What load_episode or load_episodes ends with: kind "Ok", or the failure.
\* front is the raw front matter load_episode logs before decoding it.
Outcome(kind, path) ==
    [kind |-> kind, path |-> path, file |-> "", front |-> <<>>, body |-> <<>>,
     other |-> NoPath]

\* The hygiene check with the quotes looked for before the dash.
HygieneQuotesFirst(text) ==
    IF \E q \in 1..Len(SMART_QUOTES) : Contains(text, SMART_QUOTES[q]) THEN "SmartQuote"
    ELSE IF Contains(text, ABNORMAL_DASH) THEN "AbnormalDash"
    ELSE "clean"

\* The hygiene check with the last smart quote left out.
HygieneSkipsLastQuote(text) ==
    IF Contains(text, ABNORMAL_DASH) THEN "AbnormalDash"
    ELSE IF \E q \in 1..(Len(SMART_QUOTES) - 1) : Contains(text, SMART_QUOTES[q])
    THEN "SmartQuote"
    ELSE "clean"

\* if content.contains(ABNORMAL_DASH) .. for quote in SMART_QUOTES ..
Hygiene(text) ==
    IF Contains(text, ABNORMAL_DASH) THEN "AbnormalDash"
    ELSE IF \E q \in 1..Len(SMART_QUOTES) : Contains(text, SMART_QUOTES[q]) THEN "SmartQuote"
    ELSE "clean"

\* The search for the closing delimiter without skipping the opening line.
FrontMatterEndFromStart(text) ==
    LET i == Find(text, MARK)
    IN  IF i = NotFound THEN NotFound ELSE i + 4

\* content[4..].find("---").map(|i| i + 4)
FrontMatterEnd(text) ==
    LET i == Find(SliceFrom(text, 4).str, MARK)
    IN  IF i = NotFound THEN NotFound ELSE i + 4

\* serde_yml::from_str::<Episode>: the region decodes when it gives the
\* required keys once; the record's file is the one the region names.
ParseFrontMatter(region) ==
    LET keys == {i \in 1..Len(region) : region[i] \in FileChars}
    IN  IF Cardinality(keys) = 1
        THEN [ok |-> TRUE, file |-> region[CHOOSE i \in keys : TRUE]]
        ELSE [ok |-> FALSE, file |-> ""]

\* The body taken from right after the closing `---`.
BodyStartAfterMark(index) == index + 3

\* content[index + 4..]
BodyStart(index) == index + 4

\* load_episode once the file is read: the checks, the split and the decoding.
load_text(path, text) ==
    LET hygiene == Hygiene(text)
        index   == FrontMatterEnd(text)
        region  == Slice(text, 4, index)
        front   == ParseFrontMatter(region.str)
        body    == SliceFrom(text, BodyStart(index))
    IN  IF hygiene # "clean" THEN Outcome(hygiene, path)
        ELSE IF ~StartsWith(text, OPEN) THEN Outcome("NoStart", path)
        ELSE IF index = NotFound THEN Outcome("NoSecond", path)
        ELSE IF region.panic THEN Outcome("SlicePanic", path)
        ELSE IF ~front.ok THEN Outcome("FrontMatter", path)
        ELSE IF body.panic THEN Outcome("SlicePanic", path)
        ELSE [kind |-> "Ok", path |-> path, file |-> front.file,
              front |-> region.str, body |-> body.str, other |-> NoPath]

\* A file of the tree: its text, or unreadable (fs::read_to_string fails).
File(text) == [readable |-> TRUE, content |-> text]

Unreadable == [readable |-> FALSE, content |-> <<>>]

\* let content = fs::read_to_string(&path)?; and the rest of load_episode
load_episode(path, file) ==
    IF ~file.readable THEN Outcome("IOFailure", path)
    ELSE load_text(path, file.content)

\* ------------------------------------------ specification of load_episode

RECURSIVE Concat(_)
Concat(ps) == IF ps = <<>> THEN <<>> ELSE Head(ps) \o Concat(Tail(ps))

Pieces ==
    {OPEN, MARK, <<HYPHEN>>, <<NL>>, <<"f">>, <<E_ACUTE>>, <<ABNORMAL_DASH>>}
        \cup {<<SMART_QUOTES[q]>> : q \in 1..Len(SMART_QUOTES)}

DocPath == <<0, 0>>

NoOutcome == Outcome("none", NoPath)

InitEpisode ==
    /\ \E n \in 0..MaxPieces : \E ps \in [1..n -> Pieces] : content = Concat(ps)
    /\ outcome = NoOutcome
    /\ tree = <<>> /\ episodes = <<>> /\ si = 0 /\ di = 0
    /\ pc = "idle" /\ result = NoOutcome /\ read = {}

LoadEpisode ==
    /\ outcome = NoOutcome
    /\ outcome' = load_episode(DocPath, File(content))
    /\ UNCHANGED <<content, loaderVars>>

NextEpisode == LoadEpisode

SpecEpisode == InitEpisode /\ [][NextEpisode]_vars

\* ----------------------------------------------------------- load_episodes

\* path.extension() of an entry without one
NoExt == "none"

\* The extension check that only rejects an entry without extension.
ExtensionCheckOnlyMissing(ext) == IF ext = NoExt THEN "NoExtension" ELSE "md"

\* let extension = path.extension().unwrap_or_else(..) ; if extension != "md"
ExtensionCheck(ext) ==
    IF ext = NoExt THEN "NoExtension"
    ELSE IF ext # "md" THEN "NotMarkdown"
    ELSE "md"

\* The fields of struct Episode the loader looks at.
Episode(r) == [path |-> r.path, file |-> r.file, body |-> r.body]

\* for episode in &episodes { if files.contains_key(&mp3) { bail!(..) }
\*                            files.insert(..) }
RECURSIVE CheckFiles(_, _, _)
CheckFiles(eps, i, files) ==
    IF i > Len(eps) THEN Outcome("Ok", NoPath)
    ELSE IF eps[i].file \in DOMAIN files
    THEN [kind |-> "DuplicateFile", path |-> eps[i].path, file |-> eps[i].file,
          front |-> <<>>, body |-> <<>>, other |-> files[eps[i].file]]
    ELSE CheckFiles(eps, i + 1,
                    [f \in DOMAIN files \cup {eps[i].file} |->
                        IF f = eps[i].file THEN eps[i].path ELSE files[f]])

\* The duplicate check that compares an episode with the one before it only.
DuplicateGuardAdjacent(eps) ==
    LET hits == {i \in 2..Len(eps) : eps[i].file = eps[i - 1].file}
        i    == CHOOSE h \in hits : \A j \in hits : h <= j
    IN  IF hits = {} THEN Outcome("Ok", NoPath)
        ELSE [kind |-> "DuplicateFile", path |-> eps[i].path, file |-> eps[i].file,
              front |-> <<>>, body |-> <<>>, other |-> eps[i - 1].path]

\* let mut files: HashMap<String, PathBuf> = HashMap::new(); and the loop
DuplicateGuard(eps) == CheckFiles(eps, 1, <<>>)

\* The path of entry d of series s.
PathOf(s, d) == <<s, d>>

\* for series in serieses: the iterator yields the next series directory.
EnterSeries ==
    /\ pc = "series"
    /\ si < Len(tree)
    /\ si' = si + 1
    /\ di' = 0
    /\ pc' = "entries"
    /\ UNCHANGED <<tree, episodes, result, read, episodeVars>>

\* The loop body with the duplicate check run after every push instead of
\* once after the series.
LoadEntryThenGuard ==
    /\ pc = "entries"
    /\ di < Len(tree[si])
    /\ LET entry == tree[si][di + 1]
           path  == PathOf(si, di + 1)
           r     == load_episode(path, entry.file)
           dup   == DuplicateGuard(Append(episodes, Episode(r)))
       IN  IF ExtensionCheck(entry.ext) # "md"
           THEN /\ result' = Outcome(ExtensionCheck(entry.ext), path)
                /\ pc' = "done"
                /\ UNCHANGED <<episodes, di, read>>
           ELSE IF r.kind # "Ok"
           THEN /\ result' = r
                /\ pc' = "done"
                /\ read' = read \cup {path}
                /\ UNCHANGED <<episodes, di>>
           ELSE /\ episodes' = Append(episodes, Episode(r))
                /\ di' = di + 1
                /\ read' = read \cup {path}
                /\ IF dup.kind # "Ok"
                   THEN result' = dup /\ pc' = "done"
                   ELSE UNCHANGED <<pc, result>>
    /\ UNCHANGED <<tree, si, episodeVars>>

\* for entry in entries: the extension check, load_episode, episodes.push
LoadEntry ==
    /\ pc = "entries"
    /\ di < Len(tree[si])
    /\ LET entry == tree[si][di + 1]
           path  == PathOf(si, di + 1)
           r     == load_episode(path, entry.file)
       IN  IF ExtensionCheck(entry.ext) # "md"
           THEN /\ result' = Outcome(ExtensionCheck(entry.ext), path)
                /\ pc' = "done"
                /\ UNCHANGED <<episodes, di, read>>
           ELSE IF r.kind # "Ok"
           THEN /\ result' = r
                /\ pc' = "done"
                /\ read' = read \cup {path}
                /\ UNCHANGED <<episodes, di>>
           ELSE /\ episodes' = Append(episodes, Episode(r))
                /\ di' = di + 1
                /\ read' = read \cup {path}
                /\ UNCHANGED <<pc, result>>
    /\ UNCHANGED <<tree, si, episodeVars>>

\* After the last entry of a series: the duplicate check over every episode
\* accumulated so far.
NoDuplicateFiles ==
    /\ pc = "entries"
    /\ di = Len(tree[si])
    /\ IF DuplicateGuard(episodes).kind # "Ok"
       THEN result' = DuplicateGuard(episodes) /\ pc' = "done"
       ELSE pc' = "series" /\ UNCHANGED result
    /\ UNCHANGED <<tree, episodes, si, di, read, episodeVars>>

\* Ok(episodes)
ReturnEpisodes ==
    /\ pc = "series"
    /\ si = Len(tree)
    /\ result' = Outcome("Ok", NoPath)
    /\ pc' = "done"
    /\ UNCHANGED <<tree, episodes, si, di, read, episodeVars>>

\* ----------------------------------------- specification of load_episodes

DocF == OPEN \o <<"f", NL>> \o MARK \o <<NL>>

DocG == OPEN \o <<"g", NL>> \o MARK \o <<NL, "f">>

DocFNoNewline == OPEN \o <<"f", NL>> \o MARK

DocQuote == <<SMART_QUOTES[1], "f">>

DocEmptyFront == OPEN \o MARK \o <<NL>>

DocNoClosing == OPEN \o <<"f">>

Documents == {DocF, DocG, DocFNoNewline, DocQuote, DocEmptyFront, DocNoClosing}

Entries ==
    {[ext |-> "md", file |-> File(c)] : c \in Documents}
        \cup {[ext |-> "md", file |-> Unreadable]}
        \cup {[ext |-> e, file |-> File(DocF)] : e \in {"txt", NoExt}}

\* The series directories cut out of a run of entries: series s ends at
\* entry cuts[s].
Split(flat, cuts) ==
    [s \in 1..Len(cuts) |->
        SubSeq(flat, (IF s = 1 THEN 0 ELSE cuts[s - 1]) + 1, cuts[s])]

Init ==
    /\ \E n \in 0..MaxDocs, k \in 0..MaxSeries :
         \E flat \in [1..n -> Entries], cuts \in [1..k -> 0..n] :
            /\ \A s \in 1..(k - 1) : cuts[s] <= cuts[s + 1]
            /\ IF k = 0 THEN n = 0 ELSE cuts[k] = n
            /\ tree = Split(flat, cuts)
    /\ episodes = <<>>
    /\ si = 0 /\ di = 0
    /\ pc = "series"
    /\ result = NoOutcome
    /\ read = {}
    /\ content = <<>> /\ outcome = NoOutcome

Next == EnterSeries \/ LoadEntry \/ NoDuplicateFiles \/ ReturnEpisodes

Spec == Init /\ [][Next]_vars

\* ------------------------------------------------- claims on load_episode

Loaded == outcome # NoOutcome

Glyphs == {ABNORMAL_DASH} \cup Range(SMART_QUOTES)

HasAbnormalDash(t) == ABNORMAL_DASH \in Range(t)

HasSmartQuote(t) == Range(t) \cap Range(SMART_QUOTES) # {}

BeginsWithOpening(t) ==
    /\ Len(t) >= 4
    /\ t[1] = HYPHEN /\ t[2] = HYPHEN /\ t[3] = HYPHEN /\ t[4] = NL

\* Character positions after the opening line where a `---` starts.
LaterMarks(t) ==
    {i \in 5..(Len(t) - 2) : t[i] = HYPHEN /\ t[i + 1] = HYPHEN /\ t[i + 2] = HYPHEN}

ClosingAt(t) == CHOOSE i \in LaterMarks(t) : \A j \in LaterMarks(t) : i <= j

\* C3 as stated: a document that does not begin with the opening delimiter
\* line fails with the "does not start with ---" error and no other.
C3_NoOpeningAlwaysNoStart ==
    (Loaded /\ ~BeginsWithOpening(content)) => outcome.kind = "NoStart"

\* C3 amended: a document that holds no disallowed glyph and does not begin
\* with the opening delimiter line (the empty document included) fails with
\* the "does not start with ---" error.
C3_CleanNoOpeningIsNoStart ==
    (Loaded /\ ~BeginsWithOpening(content) /\ Range(content) \cap Glyphs = {})
        => outcome.kind = "NoStart"

C3_Witness == Loaded /\ content = <<>> /\ outcome.kind = "NoStart"

\* C4: a document that holds the abnormal dash anywhere fails with the dash
\* error, whatever its delimiters and front matter are.
C4_AbnormalDashIsDashError ==
    (Loaded /\ HasAbnormalDash(content)) => outcome.kind = "AbnormalDash"

C4_Witness ==
    /\ Loaded /\ outcome.kind = "AbnormalDash"
    /\ BeginsWithOpening(content) /\ LaterMarks(content) # {}
    /\ content[Len(content)] = ABNORMAL_DASH

\* C5 as stated: a document that holds any smart quote fails with the quote
\* error.
C5_SmartQuoteAlwaysQuoteError ==
    (Loaded /\ HasSmartQuote(content)) => outcome.kind = "SmartQuote"

\* C5 amended: a document that holds a smart quote and no abnormal dash fails
\* with the quote error.
C5_SmartQuoteNoDashIsQuoteError ==
    (Loaded /\ HasSmartQuote(content) /\ ~HasAbnormalDash(content))
        => outcome.kind = "SmartQuote"

C5_Witness ==
    /\ Loaded /\ outcome.kind = "SmartQuote"
    /\ BeginsWithOpening(content)
    /\ SMART_QUOTES[Len(SMART_QUOTES)] \in Range(content)

\* C6 as stated: for a document that loads, the opening line, the front
\* matter, the closing `---` and the stored body rejoin to the document.
C6_SplitIsLossless ==
    (Loaded /\ outcome.kind = "Ok")
        => OPEN \o outcome.front \o MARK \o outcome.body = content

\* C6 amended: for a document that loads, the opening line, the front
\* matter, the closing `---`, the one character after it and the stored body
\* rejoin to the document.
C6_SplitDropsOneCharacter ==
    (Loaded /\ outcome.kind = "Ok")
        => \E k \in 1..Len(content) :
              /\ k = Len(OPEN \o outcome.front \o MARK) + 1
              /\ OPEN \o outcome.front \o MARK \o <<content[k]>> \o outcome.body = content

C6_Witness ==
    /\ Loaded /\ outcome.kind = "Ok"
    /\ outcome.body # <<>> /\ outcome.front # <<>>

\* C8 as stated: a document that begins with the opening delimiter line and
\* holds no later `---` fails with the "no second ---" error.
C8_NoClosingAlwaysNoSecond ==
    (Loaded /\ BeginsWithOpening(content) /\ LaterMarks(content) = {})
        => outcome.kind = "NoSecond"

\* C8 amended: a document that holds no disallowed glyph, begins with the
\* opening delimiter line and holds no later `---` fails with the "no second
\* ---" error.
C8_CleanNoClosingIsNoSecond ==
    (/\ Loaded /\ BeginsWithOpening(content) /\ LaterMarks(content) = {}
     /\ Range(content) \cap Glyphs = {})
        => outcome.kind = "NoSecond"

C8_Witness ==
    /\ Loaded /\ outcome.kind = "NoSecond"
    /\ Len(content) > Len(OPEN) /\ HYPHEN \in Range(SubSeq(content, 5, Len(content)))

\* The document passes the hygiene check, has both delimiters, and the text
\* between them decodes.
WellFormed(t) ==
    /\ Range(t) \cap Glyphs = {}
    /\ BeginsWithOpening(t)
    /\ LaterMarks(t) # {}
    /\ ParseFrontMatter(SubSeq(t, 5, ClosingAt(t) - 1)).ok

\* C10: a well-formed document loads to a record, and the record's body is
\* empty when nothing follows the closing `---`.
C10_WellFormedLoads ==
    (Loaded /\ WellFormed(content))
        => /\ outcome.kind = "Ok"
           /\ (ClosingAt(content) + 2 = Len(content) => outcome.body = <<>>)

\* ------------------------------------------------ claims on load_episodes

Done == pc = "done"

AllPaths == UNION {{PathOf(s, d) : d \in 1..Len(tree[s])} : s \in 1..Len(tree)}

EntryAt(p) == tree[p[1]][p[2]]

\* p comes before q in processing order.
Before(p, q) == p[1] < q[1] \/ (p[1] = q[1] /\ p[2] < q[2])

IsMarkdown(p) == EntryAt(p).ext = "md"

\* The documents load_episode returns a record for.
Loadable == {c \in Documents : load_episode(NoPath, File(c)).kind = "Ok"}

\* The entry at p is a markdown document that load_episode returns a record for.
Loads(p) ==
    IsMarkdown(p) /\ EntryAt(p).file.readable /\ EntryAt(p).file.content \in Loadable

\* The `file` the front matter of a document with both delimiters gives.
FileOf(p) ==
    LET t == EntryAt(p).file.content
    IN  ParseFrontMatter(SubSeq(t, 5, ClosingAt(t) - 1)).file

\* Two documents that load give the same `file`.
SharedFile(p, q) == p # q /\ Loads(p) /\ Loads(q) /\ FileOf(p) = FileOf(q)

\* Some two episodes of the series up to s share their `file`.
DuplicateUpTo(s) ==
    \E p, q \in AllPaths : p[1] <= s /\ q[1] <= s /\ SharedFile(p, q)

UnexpectedFileType == {"NotMarkdown", "NoExtension"}

DocumentErrors ==
    UnexpectedFileType \cup
        {"IOFailure", "AbnormalDash", "SmartQuote", "NoStart", "NoSecond",
         "FrontMatter", "SlicePanic"}

\* C1 as stated: a tree in which two episodes share their `file` fails with
\* the duplicate-media-file error, which names the file and both paths.
C1_SharedFileAlwaysDuplicateError ==
    (Done /\ \E p, q \in AllPaths : SharedFile(p, q))
        => /\ result.kind = "DuplicateFile"
           /\ \E p, q \in AllPaths :
                 /\ SharedFile(p, q) /\ Before(p, q)
                 /\ result.file = FileOf(p) /\ result.other = p /\ result.path = q

\* C1 amended: a tree in which two episodes share their `file` never returns
\* a collection; when every entry of the series up to the one that completes
\* such a pair loads, the failure is the duplicate-media-file error; that
\* error names a shared file, the path of the first episode in accumulated
\* order that has it and the path of a later episode that has it; a returned
\* collection holds no two episodes with the same file.
C1_DuplicateFileReported ==
    Done =>
        /\ (\E p, q \in AllPaths : SharedFile(p, q)) => result.kind # "Ok"
        /\ \A s \in 1..Len(tree) :
              (DuplicateUpTo(s) /\ \A p \in AllPaths : p[1] <= s => Loads(p))
                  => result.kind = "DuplicateFile"
        /\ result.kind = "DuplicateFile" =>
              /\ SharedFile(result.other, result.path)
              /\ Before(result.other, result.path)
              /\ result.file = FileOf(result.path)
              /\ \A p \in AllPaths :
                    (Loads(p) /\ FileOf(p) = result.file) => ~Before(p, result.other)
        /\ result.kind = "Ok" =>
              \A i, j \in 1..Len(episodes) :
                  i # j => episodes[i].file # episodes[j].file

\* Two episodes of different series share their file and the error names them.
C1_Witness ==
    /\ Done /\ result.kind = "DuplicateFile"
    /\ result.other[1] # result.path[1]
    /\ SharedFile(result.other, result.path)

\* C2: a tree whose documents are all well-formed markdown documents with
\* pairwise distinct `file` loads, and gives one record per document, with
\* the document's path, in processing order.
C2_DistinctTreeLoads ==
    (/\ Done
     /\ \A p \in AllPaths :
           /\ IsMarkdown(p) /\ EntryAt(p).file.readable
           /\ WellFormed(EntryAt(p).file.content)
     /\ \A p, q \in AllPaths : p # q => FileOf(p) # FileOf(q))
        => /\ result.kind = "Ok"
           /\ Len(episodes) = Cardinality(AllPaths)
           /\ {episodes[i].path : i \in 1..Len(episodes)} = AllPaths

\* The first entry, in processing order, that is not a markdown file.
FirstNotMarkdown ==
    CHOOSE p \in AllPaths :
        /\ ~IsMarkdown(p)
        /\ \A q \in AllPaths : ~IsMarkdown(q) => ~Before(q, p)

\* C7 as stated: a tree with an entry that is not a markdown file fails with
\* the unexpected-file-type error.
C7_NotMarkdownAlwaysUnexpectedFileType ==
    (Done /\ \E p \in AllPaths : ~IsMarkdown(p))
        => result.kind \in UnexpectedFileType

\* C7 amended: a tree with an entry that is not a markdown file never
\* returns a collection; the failure is the unexpected-file-type error for
\* the first such entry when every entry before it loads and the series
\* before its own hold no duplicate file.
C7_NotMarkdownFails ==
    (Done /\ \E p \in AllPaths : ~IsMarkdown(p))
        => /\ result.kind # "Ok"
           /\ ((/\ \A q \in AllPaths : Before(q, FirstNotMarkdown) => Loads(q)
                /\ ~DuplicateUpTo(FirstNotMarkdown[1] - 1))
                  => /\ result.kind \in UnexpectedFileType
                     /\ result.path = FirstNotMarkdown)

\* The entry with the wrong extension follows a well-formed document and
\* precedes another.
C7_Witness ==
    /\ Done /\ result.kind = "NotMarkdown"
    /\ result.path[2] = 2
    /\ Loads(PathOf(result.path[1], 1))
    /\ Len(tree[result.path[1]]) > 2 /\ Loads(PathOf(result.path[1], 3))

\* The first entry, in processing order, that does not load.
FirstFailing ==
    CHOOSE p \in AllPaths :
        /\ ~Loads(p)
        /\ \A q \in AllPaths : ~Loads(q) => ~Before(q, p)

\* C9: the run ends at the first failure in processing order. A document
\* error is reported only when every earlier entry loads and the series
\* before it hold no duplicate; within the document the extension comes
\* before hygiene, hygiene before the delimiters, the delimiters before
\* decoding; a duplicate is reported at the end of the first series that
\* completes one, before any entry of a later series is read; a returned
\* collection means nothing failed; and the run does nothing after it ended.
C9_FirstFailureEndsTheRun ==
    Done =>
        /\ ~ENABLED Next
        /\ result.kind \in DocumentErrors =>
              /\ result.path = FirstFailing
              /\ ~DuplicateUpTo(result.path[1] - 1)
              /\ \A p \in read : p = result.path \/ Before(p, result.path)
              /\ result.kind \in UnexpectedFileType <=> ~IsMarkdown(result.path)
              /\ result.kind = "IOFailure" <=>
                    (IsMarkdown(result.path) /\ ~EntryAt(result.path).file.readable)
              /\ result.kind \in {"NoStart", "NoSecond", "FrontMatter", "SlicePanic"}
                    => Range(EntryAt(result.path).file.content) \cap Glyphs = {}
              /\ result.kind \in {"NoSecond", "FrontMatter", "SlicePanic"}
                    => BeginsWithOpening(EntryAt(result.path).file.content)
              /\ result.kind \in {"FrontMatter", "SlicePanic"}
                    => LaterMarks(EntryAt(result.path).file.content) # {}
        /\ result.kind = "DuplicateFile" =>
              /\ \A p \in AllPaths : p[1] <= si => Loads(p)
              /\ DuplicateUpTo(si) /\ ~DuplicateUpTo(si - 1)
              /\ read = {p \in AllPaths : p[1] <= si}
        /\ result.kind = "Ok" =>
              /\ \A p \in AllPaths : Loads(p)
              /\ ~DuplicateUpTo(Len(tree))
              /\ read = AllPaths
        /\ result.kind \in DocumentErrors \cup {"DuplicateFile", "Ok"}

\* A series holds a duplicate pair and a later document in error: the
\* document error is the one reported.
C9_Witness ==
    /\ Done /\ result.kind = "SmartQuote"
    /\ \E p, q \in AllPaths :
          /\ p[1] = result.path[1] /\ q[1] = result.path[1]
          /\ SharedFile(p, q)

====
